---- MODULE Spec2Model ----
(***************************************************************************)
(* Model of search/core.py (dinghino/pyfinder): the SearchEngine facade,   *)
(* its single- and multi-attribute scoring loops and select_results.       *)
(*                                                                         *)
(* Similarity scores, thresholds and weights are fixed-point numbers in    *)
(* units of 1/One; ratings, which add normalized weights, are exact        *)
(* rationals [n, d] in the same unit.  A Python optional argument is       *)
(* None or Some(v).  A dataset element is identified by its position in    *)
(* the dataset, so equal records stay distinct elements.                   *)
(***************************************************************************)
EXTENDS Integers, Sequences, FiniteSets, TLC

\* ------------------------------------------------------------------ bounds
\* longest dataset a call is given
MaxData == 2
\* resolution of the fixed-point scores: a similarity of s is s/One, and
\* the matchers below yield scores of at most 4
One == 4

\* --------------------------------------------------------------- constants
THRESHOLD == 2
MIN_LENGTH == 3
STOP_WORDS == {"a", "is", "and", "the", "be"}

\* ----------------------------------------------------------- Python values
None == [some |-> FALSE]
Some(v) == [some |-> TRUE, val |-> v]

\* truth value of an optional list argument: None and [] are both falsy
TruthyList(o) == o.some /\ Len(o.val) > 0
\* truth value of an optional number argument: None and 0 are both falsy
TruthyNum(o) == o.some /\ o.val # 0
\* truth value of an optional callable
TruthyFn(o) == o.some

\* --------------------------------------------------------------- rationals
Rat(n, d) == [n |-> n, d |-> d]
RatAdd(a, b) == [n |-> a.n * b.d + b.n * a.d, d |-> a.d * b.d]
RatEq(a, b) == a.n * b.d = b.n * a.d
RatLt(a, b) == a.n * b.d < b.n * a.d
RatGeq(a, b) == ~RatLt(a, b)

RECURSIVE SumSeq(_)
SumSeq(s) == IF s = <<>> THEN 0 ELSE Head(s) + SumSeq(Tail(s))

\* ------------------------------------------------------------ input domain
NameValues == {"", "plain item", "awesome item"}
CategoryValues == {"", "awesome"}

\* records exposing both attributes, and records lacking one of them
Records ==
    ([name : NameValues, category : CategoryValues]
        \ {[name |-> "plain item", category |-> "awesome"]})
        \cup {[name |-> "awesome item"], [category |-> "awesome"]}

Datasets == UNION {[1..n -> Records] : n \in 0..MaxData}

Queries == {<<>>, <<"the", "is">>, <<"awesome">>}

EngineAttributes == {None, Some(<<"name", "category">>)}
EngineLimits == {-1, 1}
EngineThresholds == {THRESHOLD}
EngineWeights == {None}

CallAttributes ==
    {None, Some(<<>>), Some(<<"name">>), Some(<<"category", "name">>)}
CallLimits == {None, Some(0), Some(-1), Some(1)}
CallThresholds == {None, Some(0), Some(3)}
CallWeights == {None, Some(<<1, 3>>)}
CallMatchers == {None, Some("token_match")}

\* ------------------------------------------------- external collaborators
\* matchers.lazy_match and an alternative matcher passed per call: each a
\* deterministic table (query, text) -> score in 0..One
Matcher(name, query, text) ==
    IF name = "lazy_match"
    THEN CASE text = "awesome" -> 4
           [] text = "awesome item" -> 2
           [] text = "plain item" -> 1
           [] OTHER -> 0
    ELSE CASE text = "awesome" -> 3
           [] text = "awesome item" -> 3
           [] OTHER -> 0

\* utils.tokenize: keep the words of at least MIN_LENGTH characters that are
\* not stop words, in order
RECURSIVE tokenize(_)
tokenize(query) ==
    IF query = <<>> THEN <<>>
    ELSE LET w == Head(query)
             rest == tokenize(Tail(query))
         IN IF Len(w) >= MIN_LENGTH /\ w \notin STOP_WORDS
            THEN <<w>> \o rest ELSE rest

\* utils.generate_weights: descending ramp [n, n-1, ..., 1]
generate_weights(attributes) ==
    [i \in 1..Len(attributes) |-> Len(attributes) + 1 - i]

\* utils.normalize: each value divided by the sum of all, in units of 1/One
normalize(values) ==
    [i \in 1..Len(values) |-> Rat(values[i] * One, SumSeq(values))]

\* utils.generate_weights_from_matches: per attribute, the share of the
\* candidates whose best attribute it is
generate_weights_from_matches(matches) ==
    LET attrs == {matches[i].attr : i \in 1..Len(matches)}
        count(a) == Cardinality({i \in 1..Len(matches) : matches[i].attr = a})
    IN [a \in attrs |-> Rat(count(a) * One, Len(matches))]

\* ------------------------------------------------------------------- state
VARIABLES
    self,       \* the engine's construction-time configuration
    pc,         \* position of the current call in its lifecycle
    args,       \* the arguments passed to the current call
    env,        \* the call's local configuration after resolution
    idx,        \* number of dataset elements the scoring loop has taken
    matches,    \* the local list of candidate results
    result,     \* the list handed back to the caller (dataset positions)
    error,      \* the exception that ended the call, "" if none
    gets,       \* number of attribute reads (getattr) made by the call
    calls       \* number of matcher invocations made by the call

vars == <<self, pc, args, env, idx, matches, result, error, gets, calls>>

NoArgs ==
    [query |-> <<>>, dataset |-> <<>>, attributes |-> None, limit |-> None,
     threshold |-> None, weights |-> None, matcher |-> None]

NoWeights == [a \in {} |-> Rat(0, 1)]

NoEnv ==
    [attributes |-> None, weights |-> None, limit |-> 0, threshold |-> 0,
     matcher |-> "", wmap |-> NoWeights]

\* ------------------------------------------------------ SearchEngine.__init__
Engine(attributes, limit, threshold, weights, matcher) ==
    [attributes |-> attributes,
     limit |-> limit,
     threshold |-> threshold,
     weights |->
        IF TruthyList(attributes)
        THEN IF ~TruthyList(weights)
                \/ Len(attributes.val) # Len(weights.val)
             THEN Some(generate_weights(attributes.val))
             ELSE weights
        ELSE weights,
     matcher |-> matcher]

Init ==
    /\ self \in {Engine(a, l, t, w, "lazy_match") :
                    a \in EngineAttributes, l \in EngineLimits,
                    t \in EngineThresholds, w \in EngineWeights}
    /\ pc = "Configured"
    /\ args = NoArgs
    /\ env = NoEnv
    /\ idx = 0
    /\ matches = <<>>
    /\ result = <<>>
    /\ error = ""
    /\ gets = 0
    /\ calls = 0

\* ---------------------------------------------- resolution of the arguments
\* `x = x or self.x` for the list-valued, number-valued and callable fields
OrList(passed, default) == IF TruthyList(passed) THEN passed ELSE default
OrNum(passed, default) == IF TruthyNum(passed) THEN passed.val ELSE default
OrFn(passed, default) == IF TruthyFn(passed) THEN passed.val ELSE default

\* EntryPhase with the empty-query check made before the attributes check
EntryPhase_TokenizeFirst(attributes, query) ==
    IF Len(tokenize(query)) = 0 THEN "Returned"
    ELSE IF ~TruthyList(attributes) THEN "Failed"
    ELSE IF Len(attributes.val) = 1 THEN "ScoringSingle"
    ELSE "ScoringMulti"

\* EntryPhase without the empty-query return
EntryPhase_NoShortCircuit(attributes, query) ==
    IF ~TruthyList(attributes) THEN "Failed"
    ELSE IF Len(attributes.val) = 1 THEN "ScoringSingle"
    ELSE "ScoringMulti"

\* the two checks that precede scoring, in the order the code makes them
EntryPhase(attributes, query) ==
    IF ~TruthyList(attributes) THEN "Failed"
    ELSE IF Len(tokenize(query)) = 0 THEN "Returned"
    ELSE IF Len(attributes.val) = 1 THEN "ScoringSingle"
    ELSE "ScoringMulti"

\* static weights of the multi-attribute path, keyed by attribute
StaticWeights(attributes, weights) ==
    LET w == IF ~TruthyList(weights) \/ Len(weights.val) # Len(attributes)
             THEN generate_weights(attributes)
             ELSE weights.val
        nw == normalize(w)
    IN [a \in {attributes[i] : i \in 1..Len(attributes)} |->
            nw[CHOOSE i \in 1..Len(attributes) :
                   /\ attributes[i] = a
                   /\ \A j \in (i + 1)..Len(attributes) : attributes[j] # a]]

create_result(obj, match, score, attr) ==
    [data |-> obj, match |-> match, rating |-> score, attr |-> attr]

\* ------------------------------------------------------------- search entry
Search(query, dataset, attributes, limit, threshold, weights, matcher) ==
    /\ pc = "Configured"
    /\ LET attrs == OrList(attributes, self.attributes)
           wts == OrList(weights, self.weights)
           phase == EntryPhase(attrs, query)
       IN /\ args' = [query |-> query, dataset |-> dataset,
                      attributes |-> attributes, limit |-> limit,
                      threshold |-> threshold, weights |-> weights,
                      matcher |-> matcher]
          /\ env' = [attributes |-> attrs,
                     weights |-> wts,
                     limit |-> OrNum(limit, self.limit),
                     threshold |-> OrNum(threshold, self.threshold),
                     matcher |-> OrFn(matcher, self.matcher),
                     wmap |-> IF phase = "ScoringMulti"
                              THEN StaticWeights(attrs.val, wts)
                              ELSE NoWeights]
          /\ pc' = phase
          /\ error' = IF phase = "Failed"
                      THEN "ValueError: Missing attributes to search into."
                      ELSE ""
    /\ idx' = 0
    /\ matches' = <<>>
    /\ result' = <<>>
    /\ gets' = 0
    /\ calls' = 0
    /\ UNCHANGED self

\* ------------------------------------------------------------ select_results
\* SortByRating without reverse=True: stable, ascending
RECURSIVE SortByRating_Ascending(_)
SortByRating_Ascending(ms) ==
    IF ms = <<>> THEN <<>>
    ELSE LET n == Len(ms)
             x == ms[n]
             sorted == SortByRating_Ascending(SubSeq(ms, 1, n - 1))
             k == Cardinality({i \in 1..Len(sorted) :
                                  RatGeq(x.rating, sorted[i].rating)})
         IN SubSeq(sorted, 1, k) \o <<x>> \o SubSeq(sorted, k + 1, Len(sorted))

\* list.sort(key=rating, reverse=True): stable, descending
RECURSIVE SortByRating(_)
SortByRating(ms) ==
    IF ms = <<>> THEN <<>>
    ELSE LET n == Len(ms)
             x == ms[n]
             sorted == SortByRating(SubSeq(ms, 1, n - 1))
             k == Cardinality({i \in 1..Len(sorted) :
                                  RatGeq(sorted[i].rating, x.rating)})
         IN SubSeq(sorted, 1, k) \o <<x>> \o SubSeq(sorted, k + 1, Len(sorted))

Trim(ms, limit) ==
    IF limit > 0
    THEN SubSeq(ms, 1, IF limit < Len(ms) THEN limit ELSE Len(ms))
    ELSE ms

select_results(ms, threshold, limit) ==
    LET kept == Trim(SortByRating(ms), limit)
    IN [i \in 1..Len(kept) |-> kept[i].data]

\* ------------------------------------------------------ single-attribute path
\* Qualifies with a strict comparison
Qualifies_Strict(match, threshold) == match > threshold

Qualifies(match, threshold) == match >= threshold

ScoreSingleStep ==
    /\ pc = "ScoringSingle"
    /\ idx < Len(args.dataset)
    /\ LET attr_name == env.attributes.val[1]
           obj == args.dataset[idx + 1]
       IN IF attr_name \notin DOMAIN obj
          THEN /\ pc' = "Failed"
               /\ error' = "AttributeError"
               /\ UNCHANGED <<matches, calls>>
          ELSE LET match == Matcher(env.matcher, args.query, obj[attr_name])
               IN /\ matches' =
                        IF Qualifies(match, env.threshold)
                        THEN Append(matches,
                                 create_result(idx + 1, match, Rat(match, 1),
                                               attr_name))
                        ELSE matches
                  /\ calls' = calls + 1
                  /\ UNCHANGED <<pc, error>>
    /\ idx' = idx + 1
    /\ gets' = gets + 1
    /\ UNCHANGED <<self, args, env, result>>

ReturnSingle ==
    /\ pc = "ScoringSingle"
    /\ idx = Len(args.dataset)
    /\ matches' = SortByRating(matches)
    /\ result' = select_results(matches, env.threshold, env.limit)
    /\ pc' = "Returned"
    /\ UNCHANGED <<self, args, env, idx, error, gets, calls>>

\* ------------------------------------------------------- multi-attribute path
\* the inner loop over the attributes of one record: the Match Records of the
\* non-empty values, or the failure of the first attribute read that fails,
\* with the number of reads and of matcher invocations made
RECURSIVE ScanAttributes(_, _, _, _, _)
ScanAttributes(obj, attributes, k, matcher, query) ==
    IF k > Len(attributes)
    THEN [ok |-> TRUE, partial |-> <<>>, gets |-> 0, calls |-> 0]
    ELSE LET attr == attributes[k]
         IN IF attr \notin DOMAIN obj
            THEN [ok |-> FALSE, partial |-> <<>>, gets |-> 1, calls |-> 0]
            ELSE LET attrval == obj[attr]
                     rest == ScanAttributes(obj, attributes, k + 1,
                                            matcher, query)
                 IN IF Len(attrval) = 0
                    THEN [rest EXCEPT !.gets = @ + 1]
                    ELSE [ok |-> rest.ok,
                          partial |->
                             <<[attr |-> attr,
                                match |-> Matcher(matcher, query, attrval)]>>
                                 \o rest.partial,
                          gets |-> rest.gets + 1,
                          calls |-> rest.calls + 1]

\* max(partial_matches, key=match): the first of the maximal elements
BestMatch(partial) ==
    partial[CHOOSE i \in 1..Len(partial) :
               /\ \A j \in 1..Len(partial) : partial[j].match <= partial[i].match
               /\ \A j \in 1..(i - 1) : partial[j].match < partial[i].match]

\* TotValue without the leading `value +`
TotValue_SumOnly(value, partial) ==
    SumSeq([i \in 1..Len(partial) |-> partial[i].match])

\* value + sum of all partial matches (the best one is in the sum as well)
TotValue(value, partial) ==
    value + SumSeq([i \in 1..Len(partial) |-> partial[i].match])

ScoreMultiStep ==
    /\ pc = "ScoringMulti"
    /\ idx < Len(args.dataset)
    /\ LET obj == args.dataset[idx + 1]
           scan == ScanAttributes(obj, env.attributes.val, 1,
                                  env.matcher, args.query)
       IN /\ gets' = gets + scan.gets
          /\ calls' = calls + scan.calls
          /\ IF ~scan.ok
             THEN /\ pc' = "Failed"
                  /\ error' = "AttributeError"
                  /\ UNCHANGED matches
             ELSE IF scan.partial = <<>>
             THEN /\ pc' = "Failed"
                  /\ error' = "ValueError: max() arg is an empty sequence"
                  /\ UNCHANGED matches
             ELSE LET match == BestMatch(scan.partial)
                      value == match.match
                      score == RatAdd(Rat(TotValue(value, scan.partial), 1),
                                      env.wmap[match.attr])
                  IN /\ matches' =
                           IF Qualifies(value, env.threshold)
                           THEN Append(matches,
                                    create_result(idx + 1, value, score,
                                                  match.attr))
                           ELSE matches
                     /\ UNCHANGED <<pc, error>>
    /\ idx' = idx + 1
    /\ UNCHANGED <<self, args, env, result>>

\* second pass: add the adaptive weight of each candidate's best attribute
AdjustRatings(ms) ==
    LET adjusted_weights == generate_weights_from_matches(ms)
    IN [i \in 1..Len(ms) |->
           [ms[i] EXCEPT !.rating = RatAdd(@, adjusted_weights[ms[i].attr])]]

ReturnMulti ==
    /\ pc = "ScoringMulti"
    /\ idx = Len(args.dataset)
    /\ matches' = SortByRating(AdjustRatings(matches))
    /\ result' = select_results(AdjustRatings(matches), env.threshold,
                                env.limit)
    /\ pc' = "Returned"
    /\ UNCHANGED <<self, args, env, idx, error, gets, calls>>

\* the call is over: its frame is dropped and the engine, whose configuration
\* no call changes, is ready for the next one
Finish ==
    /\ pc \in {"Returned", "Failed"}
    /\ pc' = "Configured"
    /\ args' = NoArgs
    /\ env' = NoEnv
    /\ idx' = 0
    /\ matches' = <<>>
    /\ result' = <<>>
    /\ error' = ""
    /\ gets' = 0
    /\ calls' = 0
    /\ UNCHANGED self

\* --------------------------------------------------------------- behaviours
\* a caller invokes search on the idle engine with arguments of its choice
Call ==
    /\ pc = "Configured"
    /\ \E query \in Queries, dataset \in Datasets,
          attributes \in CallAttributes, limit \in CallLimits,
          threshold \in CallThresholds, weights \in CallWeights,
          matcher \in CallMatchers :
            Search(query, dataset, attributes, limit, threshold, weights,
                   matcher)

Next ==
    \/ Call
    \/ ScoreSingleStep
    \/ ReturnSingle
    \/ ScoreMultiStep
    \/ ReturnMulti
    \/ Finish

Spec == Init /\ [][Next]_vars

TypeOK ==
    /\ pc \in {"Configured", "ScoringSingle", "ScoringMulti", "Returned",
               "Failed"}
    /\ idx \in 0..Len(args.dataset)
    /\ Len(matches) <= idx
    /\ Len(result) <= Len(matches)

\* ------------------------------------------------- vocabulary of the claims
Given(o) == o.some /\ Len(o.val) > 0

\* the attribute list a call is to search: the call-time list if one is
\* given, else the construction-time list, else nothing
Requested ==
    IF Given(args.attributes) THEN args.attributes.val
    ELSE IF Given(self.attributes) THEN self.attributes.val
    ELSE <<>>

Tokens == tokenize(args.query)
Called == pc # "Configured"
Ended == pc \in {"Returned", "Failed"}
Elements == 1..Len(args.dataset)
Range(s) == {s[i] : i \in 1..Len(s)}

Lacks(obj) == \E k \in 1..Len(Requested) : Requested[k] \notin DOMAIN obj
NonEmptyAttrs(obj) ==
    {k \in 1..Len(Requested) :
        Requested[k] \in DOMAIN obj /\ Len(obj[Requested[k]]) > 0}
AllEmpty(obj) == ~Lacks(obj) /\ NonEmptyAttrs(obj) = {}

ScoreOf(obj, k) == Matcher(env.matcher, args.query, obj[Requested[k]])

\* the attributes of a record that get a score: the only one in a
\* single-attribute search, the non-empty ones otherwise
ScoredAttrs(obj) ==
    IF Len(Requested) = 1 THEN {1} ELSE NonEmptyAttrs(obj)

BestSimilarity(obj) ==
    CHOOSE v \in {ScoreOf(obj, k) : k \in ScoredAttrs(obj)} :
        \A k \in ScoredAttrs(obj) : ScoreOf(obj, k) <= v

\* C1: when no attribute list is given at call time nor at construction time
\* (absent or empty), the call fails with the configuration error whatever
\* the query and the dataset, having taken no dataset element, read no
\* attribute and invoked no matcher, and returns no list.
C1_NoAttributesFails ==
    (Called /\ ~Given(args.attributes) /\ ~Given(self.attributes))
        => /\ pc = "Failed"
           /\ error = "ValueError: Missing attributes to search into."
           /\ idx = 0 /\ gets = 0 /\ calls = 0
           /\ result = <<>>

C1_Witness ==
    /\ pc = "Failed"
    /\ args.attributes = Some(<<>>) /\ ~Given(self.attributes)
    /\ Tokens = <<>>
    /\ Len(args.dataset) > 0

\* C2: when the attributes resolve to a non-empty list and the query
\* tokenizes to nothing, the call returns [] as a success without taking a
\* dataset element, reading an attribute or invoking the matcher.
C2_EmptyQueryShortCircuit ==
    (Called /\ Requested # <<>> /\ Tokens = <<>>)
        => /\ pc = "Returned"
           /\ result = <<>>
           /\ error = ""
           /\ idx = 0 /\ gets = 0 /\ calls = 0

C2_Witness ==
    /\ pc = "Returned"
    /\ Requested # <<>> /\ Tokens = <<>> /\ args.query # <<>>
    /\ \E i \in Elements : Lacks(args.dataset[i])

\* the records that pass the threshold the call works with
Qualifying ==
    {i \in Elements : BestSimilarity(args.dataset[i]) >= env.threshold}

\* C3: a passed limit > 0 bounds the length of the result; a passed limit
\* <= 0 (0 included, whatever the construction-time limit) returns every
\* record that qualifies under the threshold.
C3_Original ==
    (pc = "Returned" /\ Tokens # <<>> /\ args.limit.some)
        => /\ args.limit.val > 0 => Len(result) <= args.limit.val
           /\ args.limit.val <= 0 => Range(result) = Qualifying

\* C4: every configuration field is resolved on its own: a passed value is
\* the one the call uses, the construction-time value is used only for a
\* field that is not passed; a passed threshold of 0 and a passed limit of 0
\* are used as such.
C4_Original ==
    Called
        => /\ env.limit = IF args.limit.some THEN args.limit.val
                          ELSE self.limit
           /\ env.threshold = IF args.threshold.some THEN args.threshold.val
                              ELSE self.threshold
           /\ env.matcher = IF args.matcher.some THEN args.matcher.val
                            ELSE self.matcher
           /\ env.attributes = IF Given(args.attributes) THEN args.attributes
                               ELSE self.attributes
           /\ env.weights = IF Given(args.weights) THEN args.weights
                            ELSE self.weights

\* C5: in a multi-attribute search with a non-empty token set, a record whose
\* requested attribute values are all empty is left out and the call still
\* returns the ranked list of the other qualifying records.
C5_Original ==
    (Ended /\ Len(Requested) >= 2 /\ Tokens # <<>>
        /\ (\A i \in Elements : ~Lacks(args.dataset[i]))
        /\ (\E i \in Elements : AllEmpty(args.dataset[i])))
        => /\ pc = "Returned"
           /\ \A i \in Elements :
                AllEmpty(args.dataset[i]) => i \notin Range(result)

\* C6: with a non-empty token set, a dataset holding a record that lacks a
\* requested attribute makes the whole call fail with the missing-attribute
\* error, in both paths and wherever the record sits; no list is returned.
C6_Original ==
    (Ended /\ Requested # <<>> /\ Tokens # <<>>
        /\ (\E i \in Elements : Lacks(args.dataset[i])))
        => /\ pc = "Failed"
           /\ error = "AttributeError"
           /\ result = <<>>

NoDuplicates(s) == \A i, j \in 1..Len(s) : s[i] = s[j] => i = j

\* C7: with an unbounded limit and a dataset whose records all have a
\* non-empty requested attribute, the returned records are exactly those
\* whose best similarity is >= the threshold in effect (equality included),
\* each at most once.
C7_ThresholdFilter ==
    (pc = "Returned" /\ Tokens # <<>> /\ env.limit <= 0
        /\ \A i \in Elements : NonEmptyAttrs(args.dataset[i]) # {})
        => /\ Range(result) =
                {i \in Elements :
                    BestSimilarity(args.dataset[i]) >= env.threshold}
           /\ NoDuplicates(result)

C7_Witness ==
    /\ pc = "Returned" /\ Tokens # <<>> /\ env.limit <= 0
    /\ \A i \in Elements : NonEmptyAttrs(args.dataset[i]) # {}
    /\ \E i \in Range(result) :
          BestSimilarity(args.dataset[i]) = env.threshold
    /\ \E i \in Elements : BestSimilarity(args.dataset[i]) < env.threshold

\* C8: searching [name, category] with default weights, a record whose best
\* attribute is name comes before (or ties with) every record whose best
\* attribute is category, and the latter is still in the result.
C8_Original ==
    (pc = "Returned" /\ Tokens # <<>> /\ env.limit <= 0
        /\ Requested = <<"name", "category">> /\ ~Given(args.weights))
        => \A a, b \in 1..Len(matches) :
              (matches[b].attr = "name" /\ matches[a].attr = "category")
                  => /\ b < a \/ RatEq(matches[a].rating, matches[b].rating)
                     /\ matches[a].data \in Range(result)

\* the best attribute of a record: the first, in the order of the attribute
\* list, of the non-empty attributes with the highest score
BestAttr(obj) ==
    CHOOSE k \in NonEmptyAttrs(obj) :
        /\ ScoreOf(obj, k) = BestSimilarity(obj)
        /\ \A j \in NonEmptyAttrs(obj) :
              ScoreOf(obj, j) = BestSimilarity(obj) => k <= j

SumOfScores(obj) ==
    SumSeq([k \in 1..Len(Requested) |->
               IF k \in NonEmptyAttrs(obj) THEN ScoreOf(obj, k) ELSE 0])

\* the weight vector in effect: the passed one, else the engine's, and the
\* descending ramp when that one is absent or of another length
WeightsInEffect ==
    LET w == IF Given(args.weights) THEN args.weights ELSE self.weights
    IN IF Given(w) /\ Len(w.val) = Len(Requested) THEN w.val
       ELSE [k \in 1..Len(Requested) |-> Len(Requested) + 1 - k]

SharingBest(i) ==
    {j \in Qualifying :
        BestAttr(args.dataset[j]) = BestAttr(args.dataset[i])}

ExpectedRating(i) ==
    LET obj == args.dataset[i]
        similarity == Rat(BestSimilarity(obj) + SumOfScores(obj), 1)
        static == Rat(One * WeightsInEffect[BestAttr(obj)],
                      SumSeq(WeightsInEffect))
        adaptive == Rat(One * Cardinality(SharingBest(i)),
                        Cardinality(Qualifying))
    IN RatAdd(RatAdd(similarity, static), adaptive)

\* C9: in the multi-attribute path the final rating of every candidate is
\* best similarity + sum of the scores of all its non-empty attributes (the
\* best one again) + normalized static weight of the best attribute +
\* adaptive weight of the best attribute, the latter taken from the complete
\* candidate list; an empty value is never the best attribute.
C9_AggregateRating ==
    (pc = "Returned" /\ Tokens # <<>> /\ Len(Requested) >= 2)
        => /\ {matches[p].data : p \in 1..Len(matches)} = Qualifying
           /\ \A p \in 1..Len(matches) :
                LET m == matches[p]
                    obj == args.dataset[m.data]
                IN /\ m.attr = Requested[BestAttr(obj)]
                   /\ Len(obj[m.attr]) > 0
                   /\ m.match = BestSimilarity(obj)
                   /\ RatEq(m.rating, ExpectedRating(m.data))

C9_Witness ==
    /\ pc = "Returned" /\ Tokens # <<>> /\ Len(Requested) >= 2
    /\ \E p, q \in 1..Len(matches) :
          /\ matches[p].attr # matches[q].attr
          /\ Cardinality(NonEmptyAttrs(args.dataset[matches[p].data])) = 2
          /\ Cardinality(NonEmptyAttrs(args.dataset[matches[q].data])) = 1

\* C10: the returned list is in non-increasing order of rating, records of
\* equal rating keep their dataset order, and a positive limit keeps the
\* first `limit` entries of that order, so that no dropped record has a
\* higher rating than a kept one.
C10_OrderedResult ==
    (pc = "Returned" /\ Tokens # <<>>)
        => /\ \A p, q \in 1..Len(matches) :
                p < q => /\ RatGeq(matches[p].rating, matches[q].rating)
                         /\ RatEq(matches[p].rating, matches[q].rating)
                               => matches[p].data < matches[q].data
           /\ Len(result) =
                IF env.limit > 0 /\ env.limit < Len(matches)
                THEN env.limit ELSE Len(matches)
           /\ \A p \in 1..Len(result) : result[p] = matches[p].data
           /\ \A p \in 1..Len(matches) :
                matches[p].data \notin Range(result)
                    => \A q \in 1..Len(result) :
                          ~RatLt(matches[q].rating, matches[p].rating)

C10_Witness ==
    /\ pc = "Returned" /\ Tokens # <<>>
    /\ Len(matches) = 2 /\ Len(result) = 1
    /\ RatEq(matches[1].rating, matches[2].rating)
    /\ args.dataset[1] # args.dataset[2]

====
